---- MODULE Spec2Model ----
(***************************************************************************)
(* px2cc: the PromptX action pipeline of src/src/PromptXActionProcessor.js *)
(* (RoleLoader -> DependencyAnalyzer -> CognitionLoader -> LayerAssembler) *)
(* and its callers in src/cli.js.                                          *)
(*                                                                         *)
(* Text is a sequence of one-character strings, so that the regular        *)
(* expressions of the source are evaluated character by character.         *)
(***************************************************************************)
EXTENDS Integers, Sequences, FiniteSets, TLC

VARIABLES
    \* one processRole(roleId, mode) request
    roleId,        \* argument of processRole
    mode,          \* argument of processRole: "command" or "subagent"
    pc,            \* where the request is suspended
    roleAnswer,    \* what loadResource answered for @role://roleId (<<>> before)
    roleInfo,      \* <<the object loadRole returned>>, <<>> before
    allRefs,       \* analyzeDependencies: the extracted references
    answers,       \* per reference: "pending" or what loadResource answered
    settleOrder,   \* the reference indices in the order their loads completed
    dependencies,  \* <<the bundle analyzeDependencies returned>>, <<>> before
    probe,         \* what fs.access answered (<<>> before)
    cognitionData, \* <<the object checkNetworkExists returned>>, <<>> before
    content,       \* <<the parts processRole returned>>, <<>> before
    error,         \* <<the message of the error processRole rejected with>>
    called,        \* the stages called so far, in call order
    returned,      \* the stages that have returned, in return order
    \* the shared resource manager
    initialized,   \* resourceManager.initialized
    initStarts,    \* how often initializeWithNewArchitecture was started
    \* concurrent users of the resource manager
    callerPc,      \* per concurrent loadRole call: its position
    cliPc,         \* getAllRoles: its position
    \* cleanContent on its own
    cleanPc,       \* position of the cleanContent driver
    cleanInput,    \* argument of cleanContent
    cleanOnce,     \* cleanContent(cleanInput)
    cleanTwice,    \* cleanContent(cleanContent(cleanInput))
    \* one installRole(selectedRole, installType, ...) call
    installType,     \* argument of installRole
    installPc,       \* where the installation is suspended
    packaging,       \* the calls made to ClaudeCodeBuilder, in call order
    packagingAnswer, \* <<what the packaging call answered>>, <<>> before
    installResult,   \* <<the results object installRole returned>>, <<>> before
    installError     \* <<the message of the error installRole rejected with>>

requestVars ==
    <<roleId, mode, pc, roleAnswer, roleInfo, allRefs, answers, settleOrder,
      dependencies, probe, cognitionData, content, error, called, returned>>

managerVars == <<initialized, initStarts>>

callerVars == <<callerPc, cliPc>>

cleanVars == <<cleanPc, cleanInput, cleanOnce, cleanTwice>>

installVars ==
    <<installType, installPc, packaging, packagingAnswer, installResult, installError>>

vars == <<requestVars, managerVars, callerVars, cleanVars, installVars>>

(***************************************************************************)
(* Text helpers                                                            *)
(***************************************************************************)

\* the characters JavaScript's \s matches, among those the model uses
WhiteSpace == {" ", "\n"}

\* [^\s\>\<\n] : a character of the resource part of a reference token
IsResourceChar(c) == c \notin (WhiteSpace \cup {"<", ">"})

Min(S) == CHOOSE x \in S : \A y \in S : x <= y

Max(S) == CHOOSE x \in S : \A y \in S : x >= y

\* s[from..to-1]
Slice(s, from, to) == [k \in 1..(to - from) |-> s[from + k - 1]]

\* does the literal lit occur in s at position i
LitAt(s, i, lit) ==
    /\ i >= 1
    /\ i + Len(lit) - 1 <= Len(s)
    /\ \A k \in 1..Len(lit) : s[i + k - 1] = lit[k]

\* first position >= i that holds no white space (Len(s)+1 at the end): \s* is greedy
SkipSpaces(s, i) ==
    Min({j \in i..(Len(s) + 1) : j = Len(s) + 1 \/ s[j] \notin WhiteSpace})

\* first position >= i that holds no resource character: [^\s\>\<\n]+ is greedy
SkipResource(s, i) ==
    Min({j \in i..(Len(s) + 1) : j = Len(s) + 1 \/ ~IsResourceChar(s[j])})

\* first position >= i that holds c (Len(s)+1 when there is none)
FirstOf(s, i, c) ==
    Min({j \in i..(Len(s) + 1) : j = Len(s) + 1 \/ s[j] = c})

RECURSIVE Flatten(_)
Flatten(ss) == IF ss = <<>> THEN <<>> ELSE Head(ss) \o Flatten(Tail(ss))

LitReferenceOpen == <<"<", "r", "e", "f", "e", "r", "e", "n", "c", "e">>

LitReferenceClose == <<"<", "/", "r", "e", "f", "e", "r", "e", "n", "c", "e", ">">>

LitSchemeSep == <<":", "/", "/">>

(***************************************************************************)
(* The reference token  @!?([^:]+):\/\/([^\s\>\<\n]+)  matched at the '@'  *)
(* in position j.  [^:]+ runs to the first colon after the '@' and cannot  *)
(* back off (a shorter run is followed by a non-colon), so the token       *)
(* matches iff that colon starts "://", at least one character (possibly   *)
(* the '!' itself, when '!?' backs off) precedes it, and at least one      *)
(* resource character follows.                                             *)
(***************************************************************************)
TokenColon(s, j) == FirstOf(s, j + 1, ":")

TokenEnd(s, j) == SkipResource(s, TokenColon(s, j) + 3)

TokenAt(s, j) ==
    /\ j >= 1
    /\ j <= Len(s)
    /\ s[j] = "@"
    /\ TokenColon(s, j) >= j + 2
    /\ LitAt(s, TokenColon(s, j), LitSchemeSep)
    /\ TokenEnd(s, j) > TokenColon(s, j) + 3

\* capture group 1: '!?' takes the '!' unless nothing would be left for [^:]+
TokenProtocol(s, j) ==
    IF s[j + 1] = "!" /\ TokenColon(s, j) > j + 2
    THEN Slice(s, j + 2, TokenColon(s, j))
    ELSE Slice(s, j + 1, TokenColon(s, j))

\* capture group 2
TokenResource(s, j) == Slice(s, TokenColon(s, j) + 3, TokenEnd(s, j))

\* does s hold a reference token anywhere
HasToken(s) == \E j \in 1..Len(s) : TokenAt(s, j)

(***************************************************************************)
(* LayerAssembler.cleanContent                                             *)
(***************************************************************************)

\* .replace(/<reference[^>]*>/g, '')
RECURSIVE StripOpenTags(_, _)
StripOpenTags(s, i) ==
    IF i > Len(s) THEN <<>>
    ELSE IF LitAt(s, i, LitReferenceOpen) /\ FirstOf(s, i + 10, ">") <= Len(s)
         THEN StripOpenTags(s, FirstOf(s, i + 10, ">") + 1)
         ELSE <<s[i]>> \o StripOpenTags(s, i + 1)

\* .replace(/<\/reference>/g, '')
RECURSIVE StripCloseTags(_, _)
StripCloseTags(s, i) ==
    IF i > Len(s) THEN <<>>
    ELSE IF LitAt(s, i, LitReferenceClose)
         THEN StripCloseTags(s, i + 12)
         ELSE <<s[i]>> \o StripCloseTags(s, i + 1)

\* .replace(/\s*@!?[^:]+:\/\/[^\s\>\<\n]+\s*/g, '')
\* the leading \s* is greedy and must reach the '@'; the trailing \s* is greedy
RECURSIVE StripTokens(_, _)
StripTokens(s, i) ==
    IF i > Len(s) THEN <<>>
    ELSE IF TokenAt(s, SkipSpaces(s, i))
         THEN StripTokens(s, SkipSpaces(s, TokenEnd(s, SkipSpaces(s, i))))
         ELSE <<s[i]>> \o StripTokens(s, i + 1)

\* the newlines of the white-space run that starts at i
RunNewlines(s, i) == {j \in i..(SkipSpaces(s, i) - 1) : s[j] = "\n"}

\* .replace(/\n\s*\n\s*\n/g, '\n\n') : a match starts at a newline whose
\* white-space run holds three newlines, and (greedy \s*) ends at the last one
RECURSIVE CollapseBlankLines(_, _)
CollapseBlankLines(s, i) ==
    IF i > Len(s) THEN <<>>
    ELSE IF s[i] = "\n" /\ Cardinality(RunNewlines(s, i)) >= 3
         THEN <<"\n", "\n">> \o CollapseBlankLines(s, Max(RunNewlines(s, i)) + 1)
         ELSE <<s[i]>> \o CollapseBlankLines(s, i + 1)

\* .trim()
LastNonSpace(s) == Max({0} \cup {j \in 1..Len(s) : s[j] \notin WhiteSpace})

Trim(s) ==
    IF LastNonSpace(s) = 0 THEN <<>>
    ELSE Slice(s, SkipSpaces(s, 1), LastNonSpace(s) + 1)

cleanContent(text) ==
    IF text = <<>> THEN <<>>
    ELSE Trim(CollapseBlankLines(StripTokens(StripCloseTags(
             StripOpenTags(text, 1), 1), 1), 1))

(***************************************************************************)
(* Role documents the resource manager can answer with                     *)
(***************************************************************************)
LitRole == <<"r", "o", "l", "e">>

LitPersonality == <<"p", "e", "r", "s", "o", "n", "a", "l", "i", "t", "y">>

LitPersonalityCaps == <<"P", "e", "r", "s", "o", "n", "a", "l", "i", "t", "y">>

LitPrinciple == <<"p", "r", "i", "n", "c", "i", "p", "l", "e">>

LitKnowledge == <<"k", "n", "o", "w", "l", "e", "d", "g", "e">>

LitThought == <<"t", "h", "o", "u", "g", "h", "t">>

LitExecution == <<"e", "x", "e", "c", "u", "t", "i", "o", "n">>

LitTool == <<"t", "o", "o", "l">>

TextCalm == <<"C", "a", "l", "m", ".">>

TextConcise == <<"B", "e", " ", "c", "o", "n", "c", "i", "s", "e", ".">>

ResSummarize == <<"s", "u", "m", "m", "a", "r", "i", "z", "e">>

OpenTag(name) == <<"<">> \o name \o <<">">>

CloseTag(name) == <<"<", "/">> \o name \o <<">">>

Element(name, body) == OpenTag(name) \o body \o CloseTag(name)

\* the text of a reference: @protocol://resource, or @!protocol://resource
Reference(bang, protocol, resource) ==
    <<"@">> \o (IF bang THEN <<"!">> ELSE <<>>) \o protocol \o LitSchemeSep \o resource

\* no <role> element at all
DocPlain == TextCalm

\* personality "Calm.", principle "Be concise. @!execution://summarize", no knowledge
DocWriter ==
    Element(LitRole,
        Element(LitPersonality, TextCalm) \o <<"\n">>
        \o Element(LitPrinciple,
               TextConcise \o <<" ">> \o Reference(TRUE, LitExecution, ResSummarize)))

\* two references of one protocol; the knowledge element comes first in the
\* text, and the personality tag is written with a capital
DocThoughts ==
    Element(LitRole,
        Element(LitKnowledge, Reference(FALSE, LitThought, <<"b">>))
        \o Element(LitPersonalityCaps,
               <<" ">> \o Reference(TRUE, LitThought, <<"a">>) \o <<" ">> \o TextCalm))

\* a reference of a protocol the analyzer does not know, then a knowledge one
DocTool ==
    Element(LitRole,
        Element(LitPrinciple,
            Reference(FALSE, LitTool, <<"x">>) \o <<"\n">>
            \o Reference(TRUE, LitKnowledge, <<"k">>)))

\* three references over the three sections
DocThree ==
    Element(LitRole,
        Element(LitPersonality, Reference(TRUE, LitThought, <<"a">>))
        \o Element(LitPrinciple, Reference(FALSE, LitTool, <<"x">>))
        \o Element(LitKnowledge, Reference(TRUE, LitThought, <<"b">>)))

\* a personality element and a reference, but no <role> element around them
DocBare ==
    Element(LitPersonality, TextCalm \o <<" ">> \o Reference(TRUE, LitThought, <<"a">>))

\* a personality element that holds only white space, and a principle
DocHollow ==
    Element(LitRole,
        Element(LitPersonality, <<" ">>) \o Element(LitPrinciple, TextConcise))

RoleDocs == {DocPlain, DocBare, DocHollow, DocWriter, DocThoughts, DocTool, DocThree}

(***************************************************************************)
(* RoleLoader.parseDPMLContent and extractSection                          *)
(***************************************************************************)
LowerOf == ("P" :> "p") @@ ("C" :> "c") @@ ("B" :> "b")

\* the 'i' flag of extractSection's regular expression
ToLower(c) == IF c \in DOMAIN LowerOf THEN LowerOf[c] ELSE c

LitAtNoCase(s, i, lit) ==
    /\ i >= 1
    /\ i + Len(lit) - 1 <= Len(s)
    /\ \A k \in 1..Len(lit) : ToLower(s[i + k - 1]) = ToLower(lit[k])

\* first position >= i where lit occurs (Len(s)+1 when nowhere)
FindLit(s, i, lit) ==
    Min({j \in i..(Len(s) + 1) : j = Len(s) + 1 \/ LitAt(s, j, lit)})

FindLitNoCase(s, i, lit) ==
    Min({j \in i..(Len(s) + 1) : j = Len(s) + 1 \/ LitAtNoCase(s, j, lit)})

\* new RegExp(`<${tagName}>([\s\S]*?)<\/${tagName}>`, 'i') : the first opening
\* tag and (non-greedy) the first closing tag after it; match ? match[1].trim() : null
\* <<>> is null, <<text>> is the string text
extractSection(text, tagName) ==
    LET open  == FindLitNoCase(text, 1, OpenTag(tagName))
        from  == open + Len(OpenTag(tagName))
        close == FindLitNoCase(text, from, CloseTag(tagName))
    IN  IF open <= Len(text) /\ close <= Len(text)
        THEN << Trim(Slice(text, from, close)) >>
        ELSE <<>>

\* the sections taken from the whole text when there is no <role> element instead
parseDPMLContentWholeText(text) ==
    LET open  == FindLit(text, 1, OpenTag(LitRole))
        from  == open + Len(OpenTag(LitRole))
        close == FindLit(text, from, CloseTag(LitRole))
        body  == IF open <= Len(text) /\ close <= Len(text)
                 THEN Slice(text, from, close) ELSE text
    IN  << <<"personality", extractSection(body, LitPersonality)>>,
           <<"principle", extractSection(body, LitPrinciple)>>,
           <<"knowledge", extractSection(body, LitKnowledge)>> >>

\* the keys of the sections object in insertion order, each with its value;
\* <<>> is the object {} of a document with no <role>...</role>
parseDPMLContent(text) ==
    LET open  == FindLit(text, 1, OpenTag(LitRole))
        from  == open + Len(OpenTag(LitRole))
        close == FindLit(text, from, CloseTag(LitRole))
    IN  IF open <= Len(text) /\ close <= Len(text)
        THEN << <<"personality", extractSection(Slice(text, from, close), LitPersonality)>>,
                <<"principle", extractSection(Slice(text, from, close), LitPrinciple)>>,
                <<"knowledge", extractSection(Slice(text, from, close), LitKnowledge)>> >>
        ELSE <<>>

\* sections[name]: <<>> when the key is missing or null
Section(sections, name) ==
    IF \E k \in 1..Len(sections) : sections[k][1] = name
    THEN sections[CHOOSE k \in 1..Len(sections) : sections[k][1] = name][2]
    ELSE <<>>

\* JavaScript truthiness of a string-or-null value: null and '' are falsy
Truthy(v) == v # <<>> /\ v[1] # <<>>

(***************************************************************************)
(* DependencyAnalyzer                                                      *)
(***************************************************************************)

\* text.matchAll(/@!?([^:]+):\/\/([^\s\>\<\n]+)/g), from position i on
RECURSIVE MatchAllReferences(_, _)
MatchAllReferences(s, i) ==
    IF i > Len(s) THEN <<>>
    ELSE IF TokenAt(s, i)
         THEN << [protocol |-> TokenProtocol(s, i), resource |-> TokenResource(s, i)] >>
              \o MatchAllReferences(s, TokenEnd(s, i))
         ELSE MatchAllReferences(s, i + 1)

\* extractFromText: if (!text) return []
extractFromText(section) ==
    IF Truthy(section) THEN MatchAllReferences(section[1], 1) ELSE <<>>

\* Object.values(sections).forEach(section => refs.push(...extractFromText(section)))
RECURSIVE extractResourceReferences(_)
extractResourceReferences(sections) ==
    IF sections = <<>> THEN <<>>
    ELSE extractFromText(Head(sections)[2]) \o extractResourceReferences(Tail(sections))

\* what loadResource can answer: no result, { success: false }, a result with
\* no content, a thrown error, or { success: true, content }
FailedAnswers == {"null", "unsuccessful", "nocontent"}

AnswerKinds == FailedAnswers \cup {"raise", "ok"}

\* the content the resource manager holds for @protocol://resource
LoadedContent(ref) == ref.protocol \o <<":">> \o ref.resource

\* loadDependency: the content, or null (<<>>) after a warning; the catch
\* turns a thrown error into null as well
loadDependency(ref, answer) ==
    IF answer = "ok" THEN << LoadedContent(ref) >> ELSE <<>>

\* the entry Promise.allSettled reports for one settled loadDependency call
SettledResult(ref, answer) ==
    [status |-> "fulfilled", value |-> loadDependency(ref, answer)]

\* a fail-fast join instead (Promise.all over loads that reject): it resolves
\* at the first failed load
AllSettledFailFast(ans) ==
    \/ \A i \in DOMAIN ans : ans[i] # "pending"
    \/ \E i \in DOMAIN ans : ans[i] \notin {"pending", "ok"}

\* Promise.allSettled resolves once no promise is pending
AllSettled(ans) == \A i \in DOMAIN ans : ans[i] # "pending"

\* results collected as the loads complete instead
ResultsOrderByCompletion(n, order) == order

\* the order of the results array: that of the promises given, whatever the
\* order in which they settled

ResultsOrder(n, order) == [i \in 1..n |-> i]

\* a switch whose knowledge case is the default case instead
BucketOfWithDefault(protocol) ==
    CASE protocol = LitThought -> "thoughts"
      [] protocol = LitExecution -> "executions"
      [] OTHER -> "knowledges"

\* switch (ref.protocol): the bucket an entry is pushed to, "none" without a case
BucketOf(protocol) ==
    CASE protocol = LitThought -> "thoughts"
      [] protocol = LitExecution -> "executions"
      [] protocol = LitKnowledge -> "knowledges"
      [] OTHER -> "none"

EmptyBundle == [thoughts |-> <<>>, executions |-> <<>>, knowledges |-> <<>>]

\* results.forEach((result, index) => ...), from the k-th visited result on
RECURSIVE Classify(_, _, _, _, _)
Classify(refs, ans, order, k, deps) ==
    IF k > Len(order) THEN deps
    ELSE LET ref    == refs[order[k]]
             result == SettledResult(ref, ans[order[k]])
             bucket == BucketOf(ref.protocol)
         IN  IF result.status = "fulfilled" /\ Truthy(result.value) /\ bucket # "none"
             THEN Classify(refs, ans, order, k + 1,
                      [deps EXCEPT ![bucket] =
                          Append(@, [id |-> ref.resource, content |-> result.value[1]])])
             ELSE Classify(refs, ans, order, k + 1, deps)

(***************************************************************************)
(* CognitionLoader.checkNetworkExists                                      *)
(***************************************************************************)

\* what the fs.access promise settles with: resolved, or rejected with the
\* code of the file-system error
ProbeAnswers == {"resolved", "ENOENT", "EACCES"}

\* path.join(this.basePath, roleId, 'network.json')
NetworkFilePath(id) == <<"~/.promptx/cognition", id, "network.json">>

\* an inner catch that takes ENOENT alone and lets any other error escape instead
CognitionOnProbeRethrow(id, answer) ==
    IF answer = "resolved"
    THEN [hasNetwork |-> TRUE, networkPath |-> NetworkFilePath(id), error |-> <<>>, thrown |-> FALSE]
    ELSE IF answer = "ENOENT"
    THEN [hasNetwork |-> FALSE, networkPath |-> NetworkFilePath(id), error |-> <<>>, thrown |-> FALSE]
    ELSE [hasNetwork |-> FALSE, networkPath |-> <<>>, error |-> <<answer>>, thrown |-> TRUE]

\* any rejection of fs.access ends in the inner catch, which returns the path
\* and no error field; the outer catch is reached only if path.join throws,
\* which it does not for a string roleId.  networkPath <<>> is null; error <<>>
\* is a missing error field; thrown tells whether checkNetworkExists raised
CognitionOnProbe(id, answer) ==
    IF answer = "resolved"
    THEN [hasNetwork |-> TRUE, networkPath |-> NetworkFilePath(id), error |-> <<>>, thrown |-> FALSE]
    ELSE [hasNetwork |-> FALSE, networkPath |-> NetworkFilePath(id), error |-> <<>>, thrown |-> FALSE]

(***************************************************************************)
(* LayerAssembler.assembleContent.  The result is the list `parts` that    *)
(* the code joins with newlines; a part is one pushed line: a fixed        *)
(* template line (key names it, role is the role id substituted into it),  *)
(* a heading, or a cleaned text.                                           *)
(***************************************************************************)
Part(kind, key, role, text) == [kind |-> kind, key |-> key, role |-> role, text |-> text]

Blank == Part("blank", "", "", <<>>)

Line(key, role) == Part("line", key, role, <<>>)

Heading2(key) == Part("h2", key, "", <<>>)

Heading3(id) == Part("h3", "", "", id)

Body(text) == Part("text", "", "", text)

TitleBlock(id, m) ==
    << Part("title", IF m = "subagent" THEN "assistant" ELSE "activated", id, <<>>), Blank >>

CognitionBlock(id, cognition) ==
    << Heading2("cognition") >>
    \o (IF cognition.hasNetwork
        THEN << Line("network-established", ""), Blank,
                Line("activation", ""), Line("recall", id), Line("recall-question", id),
                Line("remember", id), Blank, Line("network-note", "") >>
        ELSE << Line("network-missing", ""), Blank,
                Line("getting-started", ""), Line("install-server", ""),
                Line("recall-bootstrap", id), Line("accumulate", "") >>)
    \o << Blank >>

SectionBlock(sections, name) ==
    IF Truthy(Section(sections, name))
    THEN << Heading2(name), Body(cleanContent(Section(sections, name)[1])), Blank >>
    ELSE <<>>

RECURSIVE EntryBlocks(_)
EntryBlocks(entries) ==
    IF entries = <<>> THEN <<>>
    ELSE << Heading3(Head(entries).id), Body(cleanContent(Head(entries).content)), Blank >>
         \o EntryBlocks(Tail(entries))

\* the heading pushed whether or not the bucket holds an entry instead
DependencyBlockAlwaysHeading(entries, key) ==
    << Heading2(key) >> \o EntryBlocks(entries)

DependencyBlock(entries, key) ==
    IF Len(entries) > 0 THEN << Heading2(key) >> \o EntryBlocks(entries) ELSE <<>>

StateBlock(id, m) ==
    << Line("rule", ""), Blank >>
    \o (IF m = "command"
        THEN << Line("activation-done", id) >>
        ELSE << Heading2("assistant"), Line("assistant-intro", id),
                Line("assistant-identity", id), Line("assistant-tools", ""),
                Line("assistant-memory", ""), Blank, Line("assistant-ask", "") >>)

ToolHints(id, m) ==
    << Blank, Line("rule", ""), Blank, Line("tools-heading", ""),
       Line("tools-recall", id), Line("tools-remember", id), Line("tools-learn", ""),
       Line("tools-toolx", ""), Line("tools-availability", ""), Blank >>
    \o (IF m = "command" THEN << Line("begin", "") >> ELSE <<>>)

\* an assembler that renders the knowledges bucket as a third dependency block instead
assembleContentWithKnowledges(info, deps, cognition, m) ==
    TitleBlock(info.id, m)
    \o CognitionBlock(info.id, cognition)
    \o SectionBlock(info.sections, "personality")
    \o SectionBlock(info.sections, "principle")
    \o SectionBlock(info.sections, "knowledge")
    \o DependencyBlock(deps.thoughts, "thoughts")
    \o DependencyBlock(deps.executions, "executions")
    \o DependencyBlock(deps.knowledges, "knowledges")
    \o StateBlock(info.id, m)
    \o ToolHints(info.id, m)

assembleContent(info, deps, cognition, m) ==
    TitleBlock(info.id, m)
    \o CognitionBlock(info.id, cognition)
    \o SectionBlock(info.sections, "personality")
    \o SectionBlock(info.sections, "principle")
    \o SectionBlock(info.sections, "knowledge")
    \o DependencyBlock(deps.thoughts, "thoughts")
    \o DependencyBlock(deps.executions, "executions")
    \o StateBlock(info.id, m)
    \o ToolHints(info.id, m)

(***************************************************************************)
(* PromptXActionProcessor.processRole: one request, one action per         *)
(* stretch of code between two awaits                                      *)
(***************************************************************************)
MaxRefs == 2

RoleIds == {"writer", "ghost"}

Modes == {"command", "subagent"}

StageOrder == <<"loadRole", "analyzeDependencies", "checkNetworkExists", "assembleContent">>

\* the answers of loadResource to the role request
RoleAnswers ==
    { [kind |-> k, content |-> <<>>] : k \in AnswerKinds \ {"ok"} }
    \cup { [kind |-> "ok", content |-> d] :
             d \in { x \in RoleDocs :
                       Len(extractResourceReferences(parseDPMLContent(x))) <= MaxRefs } }

\* the condition without its !result.content instead
RoleResultRejectedNoContentCheck(answer) ==
    answer.kind = "null" \/ answer.kind = "unsuccessful"

\* if (!result || !result.success || !result.content)
RoleResultRejected(answer) ==
    answer.kind = "null" \/ answer.kind = "unsuccessful" \/ answer.content = <<>>

\* the message of the error loadRole throws: `无法加载角色 ${roleId} 的内容`
RoleNotLoadedMessage(id) == <<"cannot load role ", id, " content">>

LoaderFaultMessage == <<"resource manager fault">>

idleRequest ==
    /\ roleId = "writer"
    /\ mode = "command"
    /\ pc = "off"
    /\ roleAnswer = <<>>
    /\ roleInfo = <<>>
    /\ allRefs = <<>>
    /\ answers = <<>>
    /\ settleOrder = <<>>
    /\ dependencies = <<>>
    /\ probe = <<>>
    /\ cognitionData = <<>>
    /\ content = <<>>
    /\ error = <<>>
    /\ called = <<>>
    /\ returned = <<>>

idleManager == initialized = FALSE /\ initStarts = 0

idleCallers == callerPc = <<>> /\ cliPc = "off"

idleClean ==
    cleanPc = "off" /\ cleanInput = <<>> /\ cleanOnce = <<>> /\ cleanTwice = <<>>

idleInstall ==
    /\ installType = "commands"
    /\ installPc = "off"
    /\ packaging = <<>>
    /\ packagingAnswer = <<>>
    /\ installResult = <<>>
    /\ installError = <<>>

Init ==
    /\ roleId \in RoleIds
    /\ mode \in Modes
    /\ pc = "start"
    /\ roleAnswer = <<>>
    /\ roleInfo = <<>>
    /\ allRefs = <<>>
    /\ answers = <<>>
    /\ settleOrder = <<>>
    /\ dependencies = <<>>
    /\ probe = <<>>
    /\ cognitionData = <<>>
    /\ content = <<>>
    /\ error = <<>>
    /\ called = <<>>
    /\ returned = <<>>
    /\ initialized \in BOOLEAN
    /\ initStarts = IF initialized THEN 1 ELSE 0
    /\ idleCallers
    /\ idleClean
    /\ idleInstall

\* processRole calls loadRole, which runs up to its first await: the
\* initialization when the manager is not initialized, else the role request
LoadRoleBegin ==
    /\ pc = "start"
    /\ called' = Append(called, "loadRole")
    /\ IF ~initialized
       THEN initStarts' = initStarts + 1 /\ pc' = "awaitInit"
       ELSE initStarts' = initStarts /\ pc' = "awaitRole"
    /\ UNCHANGED <<roleId, mode, roleAnswer, roleInfo, allRefs, answers, settleOrder,
                   dependencies, probe, cognitionData, content, error, returned,
                   initialized, callerVars, cleanVars, installVars>>

\* the awaited initialization completes; loadRole goes on to the role request
InitializeResolve ==
    /\ pc = "awaitInit"
    /\ initialized' = TRUE
    /\ pc' = "awaitRole"
    /\ UNCHANGED <<roleId, mode, roleAnswer, roleInfo, allRefs, answers, settleOrder,
                   dependencies, probe, cognitionData, content, error, called, returned,
                   initStarts, callerVars, cleanVars, installVars>>

\* the awaited initialization throws: both catch blocks rethrow
InitializeReject ==
    /\ pc = "awaitInit"
    /\ error' = << LoaderFaultMessage >>
    /\ pc' = "rejected"
    /\ UNCHANGED <<roleId, mode, roleAnswer, roleInfo, allRefs, answers, settleOrder,
                   dependencies, probe, cognitionData, content, called, returned,
                   managerVars, callerVars, cleanVars, installVars>>

\* loadResource(`@role://${roleId}`) settles and loadRole runs to its end
LoadRoleResume ==
    /\ pc = "awaitRole"
    /\ \E answer \in RoleAnswers :
          /\ roleAnswer' = << answer >>
          /\ IF answer.kind = "raise"
             THEN /\ error' = << LoaderFaultMessage >>
                  /\ pc' = "rejected"
                  /\ UNCHANGED <<roleInfo, returned>>
             ELSE IF RoleResultRejected(answer)
             THEN /\ error' = << RoleNotLoadedMessage(roleId) >>
                  /\ pc' = "rejected"
                  /\ UNCHANGED <<roleInfo, returned>>
             ELSE /\ roleInfo' = << [id |-> roleId, raw |-> answer.content,
                                     sections |-> parseDPMLContent(answer.content)] >>
                  /\ returned' = Append(returned, "loadRole")
                  /\ pc' = "loaded"
                  /\ UNCHANGED error
    /\ UNCHANGED <<roleId, mode, allRefs, answers, settleOrder, dependencies, probe,
                   cognitionData, content, called, managerVars, callerVars, cleanVars, installVars>>

\* processRole calls analyzeDependencies, which extracts the references, starts
\* one loadDependency per reference and awaits Promise.allSettled
AnalyzeBegin ==
    /\ pc = "loaded"
    /\ called' = Append(called, "analyzeDependencies")
    /\ allRefs' = extractResourceReferences(roleInfo[1].sections)
    /\ answers' = [i \in 1..Len(allRefs') |-> "pending"]
    /\ pc' = "awaitDeps"
    /\ UNCHANGED <<roleId, mode, roleAnswer, roleInfo, settleOrder, dependencies, probe,
                   cognitionData, content, error, returned, managerVars, callerVars,
                   cleanVars, installVars>>

\* the loadResource call of reference i settles, and with it loadDependency
DependencySettle(i) ==
    /\ pc = "awaitDeps"
    /\ answers[i] = "pending"
    /\ \E kind \in AnswerKinds : answers' = [answers EXCEPT ![i] = kind]
    /\ settleOrder' = Append(settleOrder, i)
    /\ UNCHANGED <<roleId, mode, pc, roleAnswer, roleInfo, allRefs, dependencies, probe,
                   cognitionData, content, error, called, returned, managerVars,
                   callerVars, cleanVars, installVars>>

\* Promise.allSettled resolves; the results are sorted into the bundle and
\* analyzeDependencies returns it
AnalyzeJoin ==
    /\ pc = "awaitDeps"
    /\ AllSettled(answers)
    /\ dependencies' =
          << Classify(allRefs, answers, ResultsOrder(Len(allRefs), settleOrder), 1,
                      EmptyBundle) >>
    /\ returned' = Append(returned, "analyzeDependencies")
    /\ pc' = "analyzed"
    /\ UNCHANGED <<roleId, mode, roleAnswer, roleInfo, allRefs, answers, settleOrder, probe,
                   cognitionData, content, error, called, managerVars, callerVars,
                   cleanVars, installVars>>

\* checkNetworkExists called without awaiting analyzeDependencies instead
CheckNetworkBeginEarly ==
    /\ pc \in {"awaitDeps", "analyzed"}
    /\ called' = Append(called, "checkNetworkExists")
    /\ pc' = "awaitAccess"
    /\ UNCHANGED <<roleId, mode, roleAnswer, roleInfo, allRefs, answers, settleOrder,
                   dependencies, probe, cognitionData, content, error, returned,
                   managerVars, callerVars, cleanVars, installVars>>

\* processRole calls checkNetworkExists, which awaits fs.access
CheckNetworkBegin ==
    /\ pc = "analyzed"
    /\ called' = Append(called, "checkNetworkExists")
    /\ pc' = "awaitAccess"
    /\ UNCHANGED <<roleId, mode, roleAnswer, roleInfo, allRefs, answers, settleOrder,
                   dependencies, probe, cognitionData, content, error, returned,
                   managerVars, callerVars, cleanVars, installVars>>

\* fs.access settles and checkNetworkExists returns
CheckNetworkResume ==
    /\ pc = "awaitAccess"
    /\ \E answer \in ProbeAnswers :
          /\ probe' = << answer >>
          /\ LET status == CognitionOnProbe(roleId, answer)
             IN  IF status.thrown
                 THEN /\ error' = << status.error >>
                      /\ pc' = "rejected"
                      /\ UNCHANGED <<cognitionData, returned>>
                 ELSE /\ cognitionData' =
                            << [hasNetwork |-> status.hasNetwork,
                                networkPath |-> status.networkPath,
                                error |-> status.error] >>
                      /\ returned' = Append(returned, "checkNetworkExists")
                      /\ pc' = "checked"
                      /\ UNCHANGED error
    /\ UNCHANGED <<roleId, mode, roleAnswer, roleInfo, allRefs, answers, settleOrder,
                   dependencies, content, called, managerVars, callerVars, cleanVars, installVars>>

\* processRole calls assembleContent (no await inside) and returns its result
Assemble ==
    /\ pc = "checked"
    /\ called' = Append(called, "assembleContent")
    /\ content' = << assembleContent(roleInfo[1], dependencies[1], cognitionData[1], mode) >>
    /\ returned' = Append(returned, "assembleContent")
    /\ pc' = "resolved"
    /\ UNCHANGED <<roleId, mode, roleAnswer, roleInfo, allRefs, answers, settleOrder,
                   dependencies, probe, cognitionData, error, managerVars, callerVars,
                   cleanVars, installVars>>

Next ==
    \/ LoadRoleBegin
    \/ InitializeResolve
    \/ InitializeReject
    \/ LoadRoleResume
    \/ AnalyzeBegin
    \/ \E i \in DOMAIN answers : DependencySettle(i)
    \/ AnalyzeJoin
    \/ CheckNetworkBegin
    \/ CheckNetworkResume
    \/ Assemble

Spec == Init /\ [][Next]_vars

(***************************************************************************)
(* Several users of the one resource manager: loadRole calls of concurrent *)
(* processRole requests, and getAllRoles of the command line program.      *)
(* Each call is followed up to the point where the manager is initialized. *)
(***************************************************************************)
NumCallers == 2

Callers == 1..NumCallers

InitCallers ==
    /\ idleRequest
    /\ idleManager
    /\ idleClean
    /\ idleInstall
    /\ callerPc = [c \in Callers |-> "start"]
    /\ cliPc = "start"

\* loadRole: if (!this.resourceManager.initialized) await initializeWithNewArchitecture()
CallerLoadRoleBegin(c) ==
    /\ callerPc[c] = "start"
    /\ IF ~initialized
       THEN /\ initStarts' = initStarts + 1
            /\ callerPc' = [callerPc EXCEPT ![c] = "awaitInit"]
       ELSE /\ initStarts' = initStarts
            /\ callerPc' = [callerPc EXCEPT ![c] = "awaitRole"]
    /\ UNCHANGED <<initialized, cliPc, requestVars, cleanVars, installVars>>

\* the initialization a loadRole call awaits completes
CallerInitializeResolve(c) ==
    /\ callerPc[c] = "awaitInit"
    /\ initialized' = TRUE
    /\ callerPc' = [callerPc EXCEPT ![c] = "awaitRole"]
    /\ UNCHANGED <<initStarts, cliPc, requestVars, cleanVars, installVars>>

\* the initialization a loadRole call awaits throws: loadRole rethrows
CallerInitializeReject(c) ==
    /\ callerPc[c] = "awaitInit"
    /\ callerPc' = [callerPc EXCEPT ![c] = "rejected"]
    /\ UNCHANGED <<managerVars, cliPc, requestVars, cleanVars, installVars>>

\* the role request settles
CallerLoadRoleResume(c) ==
    /\ callerPc[c] = "awaitRole"
    /\ callerPc' = [callerPc EXCEPT ![c] = "done"]
    /\ UNCHANGED <<managerVars, cliPc, requestVars, cleanVars, installVars>>

\* getAllRoles: await manager.initializeWithNewArchitecture(), whatever the flag
GetAllRolesBegin ==
    /\ cliPc = "start"
    /\ initStarts' = initStarts + 1
    /\ cliPc' = "awaitInit"
    /\ UNCHANGED <<initialized, callerPc, requestVars, cleanVars, installVars>>

\* the initialization completes and getAllRoles returns the roles
GetAllRolesResolve ==
    /\ cliPc = "awaitInit"
    /\ initialized' = TRUE
    /\ cliPc' = "done"
    /\ UNCHANGED <<initStarts, callerPc, requestVars, cleanVars, installVars>>

\* the initialization throws and getAllRoles throws the wrapped error
GetAllRolesReject ==
    /\ cliPc = "awaitInit"
    /\ cliPc' = "rejected"
    /\ UNCHANGED <<managerVars, callerPc, requestVars, cleanVars, installVars>>

NextCallers ==
    \/ \E c \in Callers : CallerLoadRoleBegin(c)
    \/ \E c \in Callers : CallerInitializeResolve(c)
    \/ \E c \in Callers : CallerInitializeReject(c)
    \/ \E c \in Callers : CallerLoadRoleResume(c)
    \/ GetAllRolesBegin
    \/ GetAllRolesResolve
    \/ GetAllRolesReject

SpecCallers == InitCallers /\ [][NextCallers]_vars

(***************************************************************************)
(* cleanContent applied to inputs built from a few fragments               *)
(***************************************************************************)
MaxFrags == 4

CleanFrags ==
    { <<"a">>, <<" ">>, <<"\n">>,
      <<"@", "t", ":", "/", "/", "r">>,
      <<"@", "!", "t", ":", "/", "/", "r">>,
      <<"@", "t", ":", "/">>,
      <<"/", "r">>,
      LitReferenceOpen \o <<">">>,
      LitReferenceClose,
      <<"<", "r", "e", "f", "e">>,
      <<"r", "e", "n", "c", "e", ">">> }

CleanInputs == { Flatten(fs) : fs \in UNION { [1..k -> CleanFrags] : k \in 0..MaxFrags } }

InitClean ==
    /\ idleRequest
    /\ idleManager
    /\ idleCallers
    /\ idleInstall
    /\ cleanPc = "input"
    /\ cleanInput \in CleanInputs
    /\ cleanOnce = <<>>
    /\ cleanTwice = <<>>

CleanFirst ==
    /\ cleanPc = "input"
    /\ cleanOnce' = cleanContent(cleanInput)
    /\ cleanPc' = "once"
    /\ UNCHANGED <<cleanInput, cleanTwice, requestVars, managerVars, callerVars, installVars>>

CleanSecond ==
    /\ cleanPc = "once"
    /\ cleanTwice' = cleanContent(cleanOnce)
    /\ cleanPc' = "twice"
    /\ UNCHANGED <<cleanInput, cleanOnce, requestVars, managerVars, callerVars, installVars>>

NextClean == CleanFirst \/ CleanSecond

SpecClean == InitClean /\ [][NextClean]_vars

(***************************************************************************)
(* installRole of src/cli.js: one installation, which awaits one           *)
(* processRole request and then hands the content to ClaudeCodeBuilder     *)
(***************************************************************************)
InstallTypes == {"agents", "commands", "other"}

\* customName: '' by default
CustomNames == {"", "mine"}

\* selectedTools: <<>> when the user selected none
ToolChoices == {<<>>, <<"Read">>}

\* what createSubagent / createCommand can answer: { success: true },
\* { success: false, error }, or a thrown error
PackagingAnswers == {"ok", "unsuccessful", "raise"}

\* const mode = installType === 'agents' ? 'subagent' : 'command'
ModeOf(type) == IF type = "agents" THEN "subagent" ELSE "command"

\* customName || (installType === 'agents' ? `${roleName}-agent` : roleName)
FinalName(role, type, custom) ==
    IF custom # "" THEN <<custom>>
    ELSE IF type = "agents" THEN <<role, "-agent">> ELSE <<role>>

\* the capability called for an install type, "none" when neither if applies
PackagingOp(type) ==
    CASE type = "agents" -> "createSubagent"
      [] type = "commands" -> "createCommand"
      [] OTHER -> "none"

\* a test of the answer that lets { success: false } through instead
PackagingFailedOnlyOnThrow(answer) == answer = "raise"

\* the awaited call throws, or if (!result.success) throw new Error(...)
PackagingFailed(answer) == answer = "raise" \/ answer = "unsuccessful"

\* `创建Subagent失败: ${result.error}` / `创建Command失败: ${result.error}`
PackagingFailedMessage(op, answer) ==
    IF answer = "raise" THEN <<"packaging fault">>
    ELSE <<op, " failed: ", "packaging error">>

\* catch (error) { throw new Error(`安装角色失败: ${error.message}`) }
InstallFailedMessage(msg) == <<"install role failed: ">> \o msg

\* the results object: agentFile / commandFile are <<>> when never assigned
InstallResults(role, type, name, op) ==
    [agentFile   |-> IF op = "createSubagent" THEN name \o <<".md">> ELSE <<>>,
     commandFile |-> IF op = "createCommand" THEN name \o <<".md">> ELSE <<>>,
     usage       |-> IF op = "none" THEN <<>> ELSE name,
     roleName    |-> role,
     installType |-> type]

InitInstall ==
    /\ roleId \in RoleIds
    /\ mode = "unset"
    /\ pc = "off"
    /\ roleAnswer = <<>>
    /\ roleInfo = <<>>
    /\ allRefs = <<>>
    /\ answers = <<>>
    /\ settleOrder = <<>>
    /\ dependencies = <<>>
    /\ probe = <<>>
    /\ cognitionData = <<>>
    /\ content = <<>>
    /\ error = <<>>
    /\ called = <<>>
    /\ returned = <<>>
    /\ initialized \in BOOLEAN
    /\ initStarts = IF initialized THEN 1 ELSE 0
    /\ idleCallers
    /\ idleClean
    /\ installType \in InstallTypes
    /\ installPc = "start"
    /\ packaging = <<>>
    /\ packagingAnswer = <<>>
    /\ installResult = <<>>
    /\ installError = <<>>

\* installRole builds the processor, computes the mode and awaits processRole
InstallBegin ==
    /\ installPc = "start"
    /\ pc = "off"
    /\ mode' = ModeOf(installType)
    /\ pc' = "start"
    /\ installPc' = "awaitProcess"
    /\ UNCHANGED <<roleId, roleAnswer, roleInfo, allRefs, answers, settleOrder,
                   dependencies, probe, cognitionData, content, error, called, returned,
                   managerVars, callerVars, cleanVars, installType, packaging,
                   packagingAnswer, installResult, installError>>

\* processRole rejected: the catch of installRole throws the wrapped error
InstallProcessRejected ==
    /\ installPc = "awaitProcess"
    /\ pc = "rejected"
    /\ installError' = << InstallFailedMessage(error[1]) >>
    /\ installPc' = "rejected"
    /\ UNCHANGED <<requestVars, managerVars, callerVars, cleanVars, installType,
                   packaging, packagingAnswer, installResult>>

\* processRole returned the content: installRole builds the configuration and
\* awaits the capability of its install type, or returns when neither if applies
InstallPackage ==
    /\ installPc = "awaitProcess"
    /\ pc = "resolved"
    /\ \E custom \in CustomNames, tools \in ToolChoices :
          LET name == FinalName(roleId, installType, custom)
              op   == PackagingOp(installType)
          IN  IF op = "none"
              THEN /\ installResult' = << InstallResults(roleId, installType, name, op) >>
                   /\ installPc' = "returned"
                   /\ UNCHANGED packaging
              ELSE /\ packaging' = Append(packaging,
                                      [op |-> op, name |-> name, content |-> content[1],
                                       targetDir |-> ".claude", tools |-> tools])
                   /\ installPc' = "awaitPackaging"
                   /\ UNCHANGED installResult
    /\ UNCHANGED <<requestVars, managerVars, callerVars, cleanVars, installType,
                   packagingAnswer, installError>>

\* the packaging call settles and installRole runs to its end
PackagingSettle ==
    /\ installPc = "awaitPackaging"
    /\ \E answer \in PackagingAnswers :
          LET call == packaging[Len(packaging)]
          IN  /\ packagingAnswer' = << answer >>
              /\ IF PackagingFailed(answer)
                 THEN /\ installError' =
                            << InstallFailedMessage(PackagingFailedMessage(call.op, answer)) >>
                      /\ installPc' = "rejected"
                      /\ UNCHANGED installResult
                 ELSE /\ installResult' =
                            << InstallResults(roleId, installType, call.name, call.op) >>
                      /\ installPc' = "returned"
                      /\ UNCHANGED installError
    /\ UNCHANGED <<requestVars, managerVars, callerVars, cleanVars, installType, packaging>>

NextInstall ==
    \/ InstallBegin
    \/ LoadRoleBegin
    \/ InitializeResolve
    \/ InitializeReject
    \/ LoadRoleResume
    \/ AnalyzeBegin
    \/ \E i \in DOMAIN answers : DependencySettle(i)
    \/ AnalyzeJoin
    \/ CheckNetworkBegin
    \/ CheckNetworkResume
    \/ Assemble
    \/ InstallProcessRejected
    \/ InstallPackage
    \/ PackagingSettle

SpecInstall == InitInstall /\ [][NextInstall]_vars

(***************************************************************************)
(* Properties of one processRole request                                   *)
(***************************************************************************)
Prefix(s, n) == [k \in 1..n |-> s[k]]

HasReturned(stage) == \E k \in 1..Len(returned) : returned[k] = stage

\* C1: the four stages are called in the order loadRole, analyzeDependencies,
\* checkNetworkExists, assembleContent, each at most once, and a stage is
\* called only when every stage called before it has returned
C1_StagesInSequence ==
    /\ Len(called) <= Len(StageOrder)
    /\ called = Prefix(StageOrder, Len(called))
    /\ Len(returned) <= Len(called)
    /\ returned = Prefix(StageOrder, Len(returned))
    /\ Len(called) <= Len(returned) + 1

C1_AllStagesRan == pc = "resolved" /\ called = StageOrder /\ returned = StageOrder

\* C2: when the role request is answered with no result, an unsuccessful
\* result or no content, processRole rejects with a message that holds the
\* role id, no later stage is called and nothing is returned
C2_RoleLoadFailureAborts ==
    (roleAnswer # <<>> /\ roleAnswer[1].kind \in FailedAnswers) =>
        /\ pc = "rejected"
        /\ error # <<>>
        /\ \E k \in 1..Len(error[1]) : error[1][k] = roleId
        /\ called = <<"loadRole">>
        /\ returned = <<>>
        /\ roleInfo = <<>>
        /\ dependencies = <<>>
        /\ cognitionData = <<>>
        /\ content = <<>>

C2_EmptyContentRejected ==
    /\ roleAnswer # <<>>
    /\ roleAnswer[1].kind = "nocontent"
    /\ roleId = "ghost"
    /\ pc = "rejected"

\* the ids of the dependency subsections of an assembled artifact, in order
RECURSIVE SubsectionIds(_)
SubsectionIds(parts) ==
    IF parts = <<>> THEN <<>>
    ELSE (IF Head(parts).kind = "h3" THEN << Head(parts).text >> ELSE <<>>)
         \o SubsectionIds(Tail(parts))

\* the resources of the references of a protocol that loaded, from index i on
RECURSIVE LoadedIds(_, _)
LoadedIds(protocol, i) ==
    IF i > Len(allRefs) THEN <<>>
    ELSE (IF allRefs[i].protocol = protocol /\ answers[i] = "ok"
          THEN << allRefs[i].resource >> ELSE <<>>)
         \o LoadedIds(protocol, i + 1)

HasLine(parts, key) == \E k \in 1..Len(parts) : parts[k].kind = "line" /\ parts[k].key = key

\* C3: once loadRole has succeeded processRole never rejects, whatever the
\* dependency loads and the existence probe answer: it goes on until it
\* returns the assembled parts, in which a failed load shows only as a
\* missing subsection and a failed probe only as the "no network yet" block
C3_OnlyRoleLoadFailureEscapes ==
    roleInfo # <<>> =>
        /\ pc # "rejected"
        /\ error = <<>>
        /\ pc \in {"loaded", "awaitDeps", "analyzed", "awaitAccess", "checked", "resolved"}
        /\ (pc = "awaitDeps" /\ \A i \in DOMAIN answers : answers[i] # "pending")
              => ENABLED AnalyzeJoin
        /\ pc = "awaitAccess" => ENABLED CheckNetworkResume
        /\ pc = "resolved" =>
              /\ content # <<>>
              /\ SubsectionIds(content[1]) =
                     LoadedIds(LitThought, 1) \o LoadedIds(LitExecution, 1)
              /\ HasLine(content[1], "network-missing") <=> probe[1] # "resolved"
              /\ HasLine(content[1], "network-established") <=> probe[1] = "resolved"

C3_DegradedButResolved ==
    /\ pc = "resolved"
    /\ content # <<>>
    /\ probe = <<"EACCES">>
    /\ Len(allRefs) = 2
    /\ answers[1] = "raise"
    /\ answers[2] = "unsuccessful"

\* C4: every extracted reference is started before analyzeDependencies waits;
\* analyzeDependencies returns only when none of them is pending; and while it
\* waits, each pending one can still settle whatever the others answered
C4_SettleAll ==
    /\ pc = "awaitDeps" =>
          /\ DOMAIN answers = 1..Len(allRefs)
          /\ \A i \in DOMAIN answers :
                answers[i] = "pending" => ENABLED DependencySettle(i)
    /\ HasReturned("analyzeDependencies") =>
          \A i \in DOMAIN answers : answers[i] # "pending"

C4_JoinedAfterFailureFirst ==
    /\ pc = "analyzed"
    /\ Len(allRefs) = 2
    /\ settleOrder = <<2, 1>>
    /\ answers[2] = "raise"
    /\ answers[1] = "ok"

BundleSize(deps) == Len(deps.thoughts) + Len(deps.executions) + Len(deps.knowledges)

FailedLoads == {i \in DOMAIN answers : answers[i] # "ok"}

KnownProtocols == {LitThought, LitExecution, LitKnowledge}

\* the references of an unknown protocol that loaded
UnknownLoads ==
    {i \in DOMAIN answers : answers[i] = "ok" /\ allRefs[i].protocol \notin KnownProtocols}

LoadedOf(protocol) ==
    {i \in DOMAIN answers : answers[i] = "ok" /\ allRefs[i].protocol = protocol}

\* the k-th smallest member of a set of indices
Nth(S, k) == CHOOSE i \in S : Cardinality({j \in S : j < i}) = k - 1

\* a bucket holds the loaded references of its protocol, in index order
BucketInScanOrder(bucket, protocol) ==
    /\ Len(bucket) = Cardinality(LoadedOf(protocol))
    /\ \A k \in 1..Len(bucket) :
          bucket[k] = [id |-> allRefs[Nth(LoadedOf(protocol), k)].resource,
                       content |-> LoadedContent(allRefs[Nth(LoadedOf(protocol), k)])]

\* the references are those of personality, then principle, then knowledge
RefsInSectionOrder ==
    allRefs = extractFromText(Section(roleInfo[1].sections, "personality"))
              \o extractFromText(Section(roleInfo[1].sections, "principle"))
              \o extractFromText(Section(roleInfo[1].sections, "knowledge"))

\* C5 as stated: of N references with M failed loads the bundle holds N - M
C5_BundleHoldsNMinusM ==
    dependencies # <<>> =>
        BundleSize(dependencies[1]) = Len(allRefs) - Cardinality(FailedLoads)

\* C5 amended: of N references, M failed loads and U loaded references of an
\* unknown protocol, the bundle holds N - M - U entries: each bucket holds the
\* loaded references of its protocol in scan order (personality, principle,
\* knowledge), whatever the order of completion, and no error escapes
C5_BundleInScanOrder ==
    /\ HasReturned("loadRole") /\ ~HasReturned("analyzeDependencies") => pc # "rejected"
    /\ dependencies # <<>> =>
          /\ RefsInSectionOrder
          /\ BundleSize(dependencies[1]) =
                 Len(allRefs) - Cardinality(FailedLoads) - Cardinality(UnknownLoads)
          /\ BucketInScanOrder(dependencies[1].thoughts, LitThought)
          /\ BucketInScanOrder(dependencies[1].executions, LitExecution)
          /\ BucketInScanOrder(dependencies[1].knowledges, LitKnowledge)

C5_CompletedInReverse ==
    /\ dependencies # <<>>
    /\ settleOrder = <<2, 1>>
    /\ Len(dependencies[1].thoughts) = 2
    /\ dependencies[1].thoughts[1].id = <<"a">>
    /\ dependencies[1].thoughts[2].id = <<"b">>

BundleEntries(deps) ==
    {deps.thoughts[k] : k \in 1..Len(deps.thoughts)}
    \cup {deps.executions[k] : k \in 1..Len(deps.executions)}
    \cup {deps.knowledges[k] : k \in 1..Len(deps.knowledges)}

FromProtocol(entry, protocol) ==
    \E i \in DOMAIN answers :
        /\ allRefs[i].protocol = protocol
        /\ answers[i] = "ok"
        /\ entry = [id |-> allRefs[i].resource, content |-> LoadedContent(allRefs[i])]

\* C6: a reference of a protocol other than thought, execution, knowledge is
\* extracted but gives no entry in any bucket even when it loads, and every
\* entry of a bucket comes from a reference of that bucket's protocol
C6_UnknownProtocolLeftOut ==
    dependencies # <<>> =>
        /\ \A i \in DOMAIN answers :
              allRefs[i].protocol \notin KnownProtocols =>
                  \A e \in BundleEntries(dependencies[1]) :
                      e.content # LoadedContent(allRefs[i])
        /\ \A k \in 1..Len(dependencies[1].thoughts) :
              FromProtocol(dependencies[1].thoughts[k], LitThought)
        /\ \A k \in 1..Len(dependencies[1].executions) :
              FromProtocol(dependencies[1].executions[k], LitExecution)
        /\ \A k \in 1..Len(dependencies[1].knowledges) :
              FromProtocol(dependencies[1].knowledges[k], LitKnowledge)

C6_ToolReferenceLoaded ==
    /\ dependencies # <<>>
    /\ Len(allRefs) = 2
    /\ allRefs[1] = [protocol |-> LitTool, resource |-> <<"x">>]
    /\ answers[1] = "ok"
    /\ answers[2] = "ok"
    /\ BundleSize(dependencies[1]) = 1

\* C7: hasNetwork is true iff the probe finds the file; a probe that fails
\* with a permission error gives hasNetwork false, a null networkPath and a
\* non-empty error field; checkNetworkExists never throws
C7_ProbeErrorReported ==
    /\ HasReturned("analyzeDependencies") => pc # "rejected"
    /\ cognitionData # <<>> =>
          /\ cognitionData[1].hasNetwork <=> probe[1] = "resolved"
          /\ probe[1] = "EACCES" =>
                /\ ~cognitionData[1].hasNetwork
                /\ cognitionData[1].networkPath = <<>>
                /\ cognitionData[1].error # <<>>

(***************************************************************************)
(* Property of the users of the resource manager                           *)
(***************************************************************************)
AwaitingInit ==
    Cardinality({c \in DOMAIN callerPc : callerPc[c] = "awaitInit"})
    + (IF cliPc = "awaitInit" THEN 1 ELSE 0)

\* C8: the initialization of the resource manager is started at most once,
\* and no two callers are inside it at the same time
C8_InitializedOnce == initStarts <= 1 /\ AwaitingInit <= 1

(***************************************************************************)
(* Properties of cleanContent                                              *)
(***************************************************************************)
\* C9: cleaning already-cleaned text changes nothing
C9_Idempotent == cleanPc = "twice" => cleanTwice = cleanOnce

\* does s hold three newlines in a row
HasTripleNewline(s) == \E j \in 1..Len(s) : LitAt(s, j, <<"\n", "\n", "\n">>)

\* C10: cleaned text holds no reference token and no three newlines in a row
C10_NoTokenNoBlankRun ==
    cleanPc # "input" => ~HasToken(cleanOnce) /\ ~HasTripleNewline(cleanOnce)

(***************************************************************************)
(* Properties of the assembled artifact                                    *)
(***************************************************************************)
HasHeading(parts, key) == \E k \in 1..Len(parts) : parts[k].kind = "h2" /\ parts[k].key = key

RoleLayerHeadings == {"personality", "principle", "knowledge"}

\* the text holds no <role> tag
NoRoleTag(text) == FindLit(text, 1, OpenTag(LitRole)) > Len(text)

\* C11: for a role document with no <role> tag, loadRole returns an empty
\* sections map, analyzeDependencies extracts nothing and returns the empty
\* bundle, and the request is never rejected: the assembled parts hold none
\* of the three role-layer headings
C11_NoRoleTagEmptySections ==
    (roleInfo # <<>> /\ NoRoleTag(roleInfo[1].raw)) =>
        /\ roleInfo[1].sections = <<>>
        /\ allRefs = <<>>
        /\ dependencies # <<>> => dependencies[1] = EmptyBundle
        /\ pc = "awaitDeps" => ENABLED AnalyzeJoin
        /\ pc \in {"loaded", "awaitDeps", "analyzed", "awaitAccess", "checked", "resolved"}
        /\ error = <<>>
        /\ pc = "resolved" =>
              /\ content # <<>>
              /\ \A h \in RoleLayerHeadings : ~HasHeading(content[1], h)
              /\ ~HasHeading(content[1], "thoughts")
              /\ ~HasHeading(content[1], "executions")

C11_BareDocumentAssembled ==
    /\ pc = "resolved"
    /\ content # <<>>
    /\ roleInfo[1].raw = DocBare
    /\ extractSection(roleInfo[1].raw, LitPersonality) # <<>>
    /\ dependencies[1] = EmptyBundle

\* knowledges lists a bundle could hold instead of the one it holds
AltKnowledges ==
    LET k == [id |-> <<"k">>, content |-> LoadedContent([protocol |-> LitKnowledge, resource |-> <<"k">>])]
        z == [id |-> <<"z">>, content |-> TextCalm]
    IN  { <<>>, <<k>>, <<z>>, <<k, z>>, <<z, k>> }

\* C12: a loaded knowledge reference is put into the knowledges bucket, and
\* the bucket is never rendered: with any other knowledges list in the bundle,
\* assembleContent returns the same parts for the same role, cognition status
\* and mode, and the parts hold no subsection of a knowledge reference
C12_KnowledgesNotRendered ==
    /\ dependencies # <<>> =>
          [k \in 1..Len(dependencies[1].knowledges) |-> dependencies[1].knowledges[k].id]
             = LoadedIds(LitKnowledge, 1)
    /\ pc = "resolved" =>
          /\ \A alt \in AltKnowledges :
                assembleContent(roleInfo[1], [dependencies[1] EXCEPT !.knowledges = alt],
                                cognitionData[1], mode) = content[1]
          /\ Len(SubsectionIds(content[1])) =
                Len(dependencies[1].thoughts) + Len(dependencies[1].executions)

C12_KnowledgeLoadedAndAssembled ==
    /\ pc = "resolved"
    /\ content # <<>>
    /\ Len(dependencies[1].knowledges) = 1
    /\ dependencies[1].knowledges \in AltKnowledges
    /\ \E alt \in AltKnowledges : alt # dependencies[1].knowledges

\* the positions of the parts of a kind and key
PosOf(parts, kind, key) ==
    {k \in 1..Len(parts) : parts[k].kind = kind /\ parts[k].key = key}

PosOfKind(parts, kind) == {k \in 1..Len(parts) : parts[k].kind = kind}

Before(A, B) == \A a \in A, b \in B : a < b

\* the parts that open the blocks, in the order of the blocks; the two
\* horizontal rules are told apart by StateRules below
BlockMarkers(parts) ==
    << PosOfKind(parts, "title"),
       PosOf(parts, "h2", "cognition"),
       PosOf(parts, "line", "network-established") \cup PosOf(parts, "line", "network-missing"),
       PosOf(parts, "h2", "personality"),
       PosOf(parts, "h2", "principle"),
       PosOf(parts, "h2", "knowledge"),
       PosOf(parts, "h2", "thoughts"),
       PosOf(parts, "h2", "executions"),
       {Min(PosOf(parts, "line", "rule"))},
       PosOf(parts, "line", "activation-done") \cup PosOf(parts, "h2", "assistant"),
       {Max(PosOf(parts, "line", "rule"))},
       PosOf(parts, "line", "tools-heading"),
       PosOf(parts, "line", "begin") >>

\* the n-th subsection heading lies in the block of the bucket its entry is in
SubsectionsInBlocks(parts, deps) ==
    LET h3 == PosOfKind(parts, "h3")
    IN  \A p \in h3 :
           LET n == Cardinality({q \in h3 : q <= p})
           IN  /\ parts[p + 1].kind = "text"
               /\ Before({p}, {Min(PosOf(parts, "line", "rule"))})
               /\ IF n <= Len(deps.thoughts)
                  THEN /\ parts[p].text = deps.thoughts[n].id
                       /\ Before(PosOf(parts, "h2", "thoughts"), {p})
                       /\ Before({p}, PosOf(parts, "h2", "executions"))
                  ELSE /\ parts[p].text = deps.executions[n - Len(deps.thoughts)].id
                       /\ Before(PosOf(parts, "h2", "executions"), {p})

\* which blocks the parts hold, given the arguments of assembleContent
BlocksPresent(parts, info, deps, cognition, m) ==
    /\ PosOfKind(parts, "title") = {1}
    /\ parts[1].role = info.id
    /\ Cardinality(PosOf(parts, "h2", "cognition")) = 1
    /\ Cardinality(PosOf(parts, "line", "network-established")) =
          (IF cognition.hasNetwork THEN 1 ELSE 0)
    /\ Cardinality(PosOf(parts, "line", "network-missing")) =
          (IF cognition.hasNetwork THEN 0 ELSE 1)
    /\ \A h \in RoleLayerHeadings :
          /\ Cardinality(PosOf(parts, "h2", h)) = (IF Truthy(Section(info.sections, h)) THEN 1 ELSE 0)
          /\ \A p \in PosOf(parts, "h2", h) : parts[p + 1].kind = "text"
    /\ Cardinality(PosOf(parts, "h2", "thoughts")) = (IF Len(deps.thoughts) > 0 THEN 1 ELSE 0)
    /\ Cardinality(PosOf(parts, "h2", "executions")) = (IF Len(deps.executions) > 0 THEN 1 ELSE 0)
    /\ Cardinality(PosOfKind(parts, "h3")) = Len(deps.thoughts) + Len(deps.executions)
    /\ Cardinality(PosOf(parts, "line", "rule")) = 2
    /\ Cardinality(PosOf(parts, "line", "activation-done")) = (IF m = "command" THEN 1 ELSE 0)
    /\ Cardinality(PosOf(parts, "h2", "assistant")) = (IF m = "subagent" THEN 1 ELSE 0)
    /\ Cardinality(PosOf(parts, "line", "tools-heading")) = 1
    /\ PosOf(parts, "line", "begin") = (IF m = "command" THEN {Len(parts)} ELSE {})

\* C13: the assembled parts hold the blocks in the order title, cognition
\* guidance (the one template hasNetwork selects), personality, principle and
\* knowledge headings (each only for a section that is there), thoughts and
\* executions headings (each only for a non-empty bucket, with one subsection
\* per entry in bundle order), state block of the mode, tool hints, and the
\* begin sentence last and only in command mode; when no execution reference
\* loads there is no executions heading
C13_BlocksInFixedOrder ==
    pc = "resolved" =>
        LET parts   == content[1]
            markers == BlockMarkers(parts)
        IN  /\ BlocksPresent(parts, roleInfo[1], dependencies[1], cognitionData[1], mode)
            /\ \A i, j \in 1..Len(markers) : i < j => Before(markers[i], markers[j])
            /\ SubsectionsInBlocks(parts, dependencies[1])
            /\ \A h \in RoleLayerHeadings :
                  HasHeading(parts, h) => Section(roleInfo[1].sections, h) # <<>>
            /\ (\A i \in DOMAIN allRefs :
                   allRefs[i].protocol = LitExecution => answers[i] # "ok")
                  => ~HasHeading(parts, "executions")

C13_OnlyExecutionFailed ==
    /\ pc = "resolved"
    /\ roleInfo[1].raw = DocWriter
    /\ Len(allRefs) = 1
    /\ allRefs[1].protocol = LitExecution
    /\ answers[1] = "unsuccessful"
    /\ HasHeading(content[1], "personality")
    /\ HasHeading(content[1], "principle")
    /\ ~HasHeading(content[1], "executions")

(***************************************************************************)
(* Properties of one installation                                          *)
(***************************************************************************)
NamesFile(result) == result.agentFile # <<>> \/ result.commandFile # <<>>

\* C14: installRole calls the packaging capability at most once, and only
\* when processRole has returned the content, which it hands over:
\* createSubagent exactly for install type 'agents', createCommand exactly for
\* 'commands'; when processRole rejects no packaging call is made and
\* installRole rejects; when the packaging call answers success: false
\* installRole rejects and returns no result
C14_PackagingOnceAfterProcess ==
    /\ Len(packaging) <= 1
    /\ \A k \in 1..Len(packaging) :
          /\ pc = "resolved"
          /\ content # <<>>
          /\ packaging[k].content = content[1]
          /\ packaging[k].op = "createSubagent" <=> installType = "agents"
          /\ packaging[k].op = "createCommand" <=> installType = "commands"
    /\ installPc \in {"awaitPackaging", "returned"} =>
          (Len(packaging) = 1 <=> installType \in {"agents", "commands"})
    /\ pc = "rejected" =>
          /\ packaging = <<>>
          /\ installResult = <<>>
          /\ installPc \in {"awaitProcess", "rejected"}
          /\ installPc = "awaitProcess" => ENABLED InstallProcessRejected
    /\ packagingAnswer = <<"unsuccessful">> =>
          /\ installPc = "rejected"
          /\ installError # <<>>
          /\ installResult = <<>>
    /\ installResult # <<>> =>
          /\ installPc = "returned"
          /\ installError = <<>>
          /\ NamesFile(installResult[1]) => packagingAnswer = <<"ok">>

C14_PackagingReportedFailure ==
    /\ installPc = "rejected"
    /\ installType = "agents"
    /\ Len(packaging) = 1
    /\ packaging[1].op = "createSubagent"
    /\ packagingAnswer = <<"unsuccessful">>
====
